---- MODULE Spec2Model ----
(***************************************************************************)
(* The submission/completion lifecycle of the io_uring reactor:            *)
(* the pending table, the oneshot and multishot result stores, the         *)
(* oneshot and multishot I/O handles and the lazy completion iterator      *)
(* returned by react().  The kernel side of the ring (requests in flight,  *)
(* the completion queue, cancel-by-tag) is the environment.                *)
(***************************************************************************)
EXTENDS Integers, Sequences, FiniteSets, TLC

VARIABLES
    hs,         \* handle id -> the handle object (state, kind, slot, tag, value)
    pending,    \* ReactorInner.pending : Slab<PendingIo<T>>
    oneshot,    \* RingResults.oneshot  : Slab<ResultState>
    multishot,  \* RingResults.multishot: Slab<MultishotResultState>
    sq,         \* submission queue entries pushed and not yet given to the kernel
    inflight,   \* requests the kernel holds
    cq,         \* completion queue entries not yet consumed
    rpc,        \* where the executor is in react(): idle, waiting, iter
    iter_n,     \* entries left in the CompletionQueue snapshot of the live iterator
    aborted,    \* a panic was raised
    last,       \* the operation performed last and what it returned
    kvals,      \* history: per submission, the values the kernel reported, in order
    keos,       \* history: per submission, the kernel has posted its final completion
    got,        \* history: per handle, the ready values its polls returned, in order
    wakes,      \* history: per handle, how often its wake token was yielded
    drained,    \* history: per submission, how many of its completions were processed
    snap,       \* history: submissions of the completions visible to the live iterator
    yielded     \* history: wake tokens yielded by the live iterator, in order

vars == <<hs, pending, oneshot, multishot, sq, inflight, cq, rpc, iter_n,
          aborted, last, kvals, keos, got, wakes, drained, snap, yielded>>

----------------------------------------------------------------------------
\* Bounds of the model.

MaxHandles == 2

MaxVals == 2

Values == {-2, 1}

EndValues == {0}

\* Program constants.

SqEntries == 1024

RingCapacity == 1024

\* The result of a cancelled request, -ECANCELED.
CancelledResult == 0 - 125

Handles == 1 .. MaxHandles

\* The wake token the provider closure of handle h supplies (10, 20, ...).
Token(h) == 10 * h

----------------------------------------------------------------------------
\* slab::Slab as the reactor uses it: dense keys, the key freed last is
\* handed out first.

Occupied(v) == [vacant |-> FALSE, val |-> v, next |-> 0]

Vacant(n) == [vacant |-> TRUE, val |-> 0, next |-> n]

SlabNew == [entries |-> <<>>, next |-> 0, len |-> 0]

SlabContains(s, key) ==
    /\ key + 1 \in DOMAIN s.entries
    /\ ~ s.entries[key + 1].vacant

SlabGet(s, key) == s.entries[key + 1].val

SlabVacantKey(s) == s.next

SlabInsert(s, v) ==
    LET key == s.next IN
    IF key = Len(s.entries)
    THEN [entries |-> Append(s.entries, Occupied(v)),
          next |-> key + 1, len |-> s.len + 1]
    ELSE [entries |-> [s.entries EXCEPT ![key + 1] = Occupied(v)],
          next |-> s.entries[key + 1].next, len |-> s.len + 1]

SlabSet(s, key, v) ==
    [s EXCEPT !.entries[key + 1] = Occupied(v)]

SlabRemove(s, key) ==
    [entries |-> [s.entries EXCEPT ![key + 1] = Vacant(s.next)],
     next |-> key, len |-> s.len - 1]

SlabIsEmpty(s) == s.len = 0

----------------------------------------------------------------------------
\* OneshotStore.  ResultState is Pending, Set(i32) or Dropped.

RsPending == [st |-> "Pending", v |-> 0]

RsSet(v) == [st |-> "Set", v |-> v]

RsDropped == [st |-> "Dropped", v |-> 0]

\* create_slot taking two slots for one submission.
Oneshot_create_slot_Twice(store) ==
    SlabInsert(SlabInsert(store, RsPending), RsPending)

Oneshot_create_slot(store) == SlabInsert(store, RsPending)

\* set_result losing the result of a slot that is still waited for.
Oneshot_set_result_Lost(store, result, idx) ==
    IF SlabGet(store, idx).st = "Dropped" THEN SlabRemove(store, idx) ELSE store

\* set_result storing the result whatever the state of the slot.
Oneshot_set_result_Keep(store, result, idx) ==
    SlabSet(store, idx, RsSet(result))

Oneshot_set_result(store, result, idx) ==
    IF SlabGet(store, idx).st = "Dropped"
    THEN SlabRemove(store, idx)
    ELSE SlabSet(store, idx, RsSet(result))

\* The value get_result returns: <<v>> for Some(v), <<>> for None.
Oneshot_get_result_ret(store, idx) ==
    IF SlabGet(store, idx).st = "Set" THEN <<SlabGet(store, idx).v>> ELSE <<>>

\* get_result taking the slot away before it looks at its state.
Oneshot_get_result_Take(store, idx) ==
    IF SlabGet(store, idx).st \in {"Set", "Pending"}
    THEN SlabRemove(store, idx)
    ELSE store

\* get_result reading the result and leaving the slot where it is.
Oneshot_get_result_Peek(store, idx) == store

Oneshot_get_result(store, idx) ==
    IF SlabGet(store, idx).st = "Set" THEN SlabRemove(store, idx) ELSE store

Oneshot_get_result_panics(store, idx) ==
    \/ ~ SlabContains(store, idx)
    \/ SlabGet(store, idx).st = "Dropped"

\* drop_result marking the slot dropped whatever its state.
Oneshot_drop_result_Mark(store, idx) == SlabSet(store, idx, RsDropped)

\* drop_result letting go of the slot at once, whatever its state.
Oneshot_drop_result_Remove(store, idx) == SlabRemove(store, idx)

Oneshot_drop_result(store, idx) ==
    IF SlabGet(store, idx).st = "Set"
    THEN SlabRemove(store, idx)
    ELSE SlabSet(store, idx, RsDropped)

----------------------------------------------------------------------------
\* MultishotStore.  A slot is a ring buffer of results and two flags.

MsNew == [results |-> <<>>, dropped |-> FALSE, finished |-> FALSE]

Multishot_create_slot(store) == SlabInsert(store, MsNew)

\* A push that puts the newest value at the head.
RingPush_Front(q, v) == <<v>> \o q

\* ConstGenericRingBuffer::push overwrites the oldest element when full.
RingPush(q, v) ==
    IF Len(q) = RingCapacity THEN Append(Tail(q), v) ELSE Append(q, v)

Multishot_push_result(store, result, idx) ==
    SlabSet(store, idx,
            [SlabGet(store, idx) EXCEPT !.results = RingPush(@, result)])

\* What pop_result returns.
Multishot_pop_result_ret(store, idx) ==
    LET r == SlabGet(store, idx) IN
    IF r.results # <<>> THEN [tag |-> "Value", v |-> Head(r.results)]
    ELSE IF r.finished THEN [tag |-> "Finished", v |-> 0]
    ELSE [tag |-> "Pending", v |-> 0]

Multishot_pop_result(store, idx) ==
    LET r == SlabGet(store, idx) IN
    IF r.results # <<>>
    THEN SlabSet(store, idx, [r EXCEPT !.results = Tail(@)])
    ELSE store

\* drop_result letting go of the slot at once.
Multishot_drop_result_Remove(store, idx) == SlabRemove(store, idx)

Multishot_drop_result(store, idx) ==
    IF SlabGet(store, idx).finished
    THEN SlabRemove(store, idx)
    ELSE SlabSet(store, idx, [SlabGet(store, idx) EXCEPT !.dropped = TRUE])

Multishot_set_finished(store, idx) ==
    IF SlabGet(store, idx).dropped
    THEN SlabRemove(store, idx)
    ELSE SlabSet(store, idx, [SlabGet(store, idx) EXCEPT !.finished = TRUE])

RingResults_is_empty == SlabIsEmpty(oneshot) /\ SlabIsEmpty(multishot)

----------------------------------------------------------------------------
\* Poll results.  reactor_value_to_result turns the kernel's i32 into
\* Ok(v) or Err(os error |v|).

I32Max == 2147483647

I32Min == 0 - I32Max - 1

\* i32::abs overflows at i32::MIN: it panics in a build with overflow checks
\* and returns i32::MIN in a build without them.
i32_abs_overflows(v) == v = I32Min

i32_abs(v) == IF v = I32Min THEN I32Min ELSE IF v < 0 THEN 0 - v ELSE v

reactor_value_to_result_panics(v) == v < 0 /\ i32_abs_overflows(v)

reactor_value_to_result(v) ==
    IF v < 0 THEN [ok |-> FALSE, val |-> i32_abs(v)] ELSE [ok |-> TRUE, val |-> v]

PollPending == [tag |-> "Pending", ok |-> TRUE, val |-> 0]

PollReady(r) == [tag |-> "Ready", ok |-> r.ok, val |-> r.val]

PollReadySome(r) == [tag |-> "ReadySome", ok |-> r.ok, val |-> r.val]

PollReadyNone == [tag |-> "ReadyNone", ok |-> TRUE, val |-> 0]

NoRet == [tag |-> "", ok |-> TRUE, val |-> 0]

\* History kept with a step of the iterator: the completion it processed had
\* been left in the queue by an iterator dropped before reaching it.
KeptRet == [tag |-> "kept", ok |-> TRUE, val |-> 0]

\* The conversion handing out the raw value as a success.
PollFromIoState_Raw(state) ==
    IF state.st = "Finished"
    THEN PollReady([ok |-> TRUE, val |-> state.val])
    ELSE PollPending

\* From<&IoState> for Poll<io::Result<i32>> of the oneshot handle.
PollFromIoState(state) ==
    IF state.st = "Finished"
    THEN PollReady(reactor_value_to_result(state.val))
    ELSE PollPending

----------------------------------------------------------------------------
\* Handles.  st is Absent (not constructed yet), New, Submitted, Finished or
\* Dropped (the object is gone); was is the state the handle was dropped in
\* and early tells that its stream had not been marked finished by then.

HandleAbsent ==
    [st |-> "Absent", kind |-> "Oneshot", slot |-> 0, tag |-> 0, val |-> 0,
     was |-> "", early |-> FALSE]

HandleNew(kind) == [HandleAbsent EXCEPT !.st = "New", !.kind = kind]

Live(h) == hs[h].st \in {"New", "Submitted", "Finished"}

Op(op, h, pre, ret, tok, more) ==
    [op |-> op, h |-> h, pre |-> pre, ret |-> ret, tok |-> tok, more |-> more]

Init ==
    /\ hs = [h \in Handles |-> HandleAbsent]
    /\ pending = SlabNew
    /\ oneshot = SlabNew
    /\ multishot = SlabNew
    /\ sq = <<>>
    /\ inflight = {}
    /\ cq = <<>>
    /\ rpc = "idle"
    /\ iter_n = 0
    /\ aborted = FALSE
    /\ last = Op("init", 0, "", NoRet, 0, FALSE)
    /\ kvals = [h \in Handles |-> <<>>]
    /\ keos = [h \in Handles |-> FALSE]
    /\ got = [h \in Handles |-> <<>>]
    /\ wakes = [h \in Handles |-> 0]
    /\ drained = [h \in Handles |-> 0]
    /\ snap = <<>>
    /\ yielded = <<>>

kernelVars == <<inflight, cq, kvals, keos>>

reactVars == <<rpc, iter_n, wakes, drained, snap, yielded>>

storeVars == <<pending, oneshot, multishot, sq>>

\* Handles may be used only while no completion iterator borrows the reactor.
CanCall == rpc = "idle" /\ ~ aborted

\* ReactorUring::new_oneshot_io / new_multishot_io: handles are numbered in
\* the order they are constructed.
NewHandle(h, kind) ==
    /\ CanCall
    /\ hs[h].st = "Absent"
    /\ \A g \in Handles : g < h => hs[g].st # "Absent"
    /\ hs' = [hs EXCEPT ![h] = HandleNew(kind)]
    /\ last' = Op("new", h, "Absent", NoRet, 0, FALSE)
    /\ UNCHANGED <<storeVars, kernelVars, reactVars, aborted, got>>

new_oneshot_io(h) == NewHandle(h, "Oneshot")

new_multishot_io(h) == NewHandle(h, "Multi")

\* ReactorInner::submit_io: a result slot, a pending entry keyed by the tag,
\* and the entry pushed on the submission queue with user_data = tag.
submit_io_tag == SlabVacantKey(pending)

submit_io_slot(kind) ==
    IF kind = "Oneshot" THEN SlabVacantKey(oneshot) ELSE SlabVacantKey(multishot)

PendingIo(obj, idx, kind) ==
    [assoc_obj |-> obj, result_slab_idx |-> idx, kind |-> kind]

\* The submission stamped with the index of the result slot.
SqeUserData_SlotIdx(kind) == submit_io_slot(kind)

\* entry.user_data(slot as u64): the key of the pending entry is the tag.
SqeUserData(kind) == submit_io_tag

submit_io(sid, obj, kind) ==
    /\ IF kind = "Oneshot"
       THEN oneshot' = Oneshot_create_slot(oneshot) /\ UNCHANGED multishot
       ELSE multishot' = Multishot_create_slot(multishot) /\ UNCHANGED oneshot
    /\ pending' = SlabInsert(pending, PendingIo(obj, submit_io_slot(kind), kind))
    /\ IF Len(sq) >= SqEntries
       THEN aborted' = TRUE /\ UNCHANGED sq
       ELSE /\ sq' = Append(sq, [user_data |-> SqeUserData(kind),
                                 multi |-> (kind = "Multi"), sid |-> sid])
            /\ UNCHANGED aborted

----------------------------------------------------------------------------
\* OneshotUringIo.

\* A panic: nothing else of the reactor is touched.
Panic(op, h, pre) ==
    /\ aborted' = TRUE
    /\ last' = Op(op, h, pre, NoRet, 0, FALSE)

\* The end of a poll: it returns ret, or, when the conversion of the value
\* overflows, it returns ret or panics, as the build has it.
PollReturns(h, pre, ret, overflows) ==
    \/ /\ last' = Op("poll", h, pre, ret, 0, FALSE)
       /\ UNCHANGED aborted
    \/ /\ overflows
       /\ Panic("poll", h, pre)

Oneshot_submit_or_get_result(h) ==
    /\ CanCall
    /\ hs[h].kind = "Oneshot"
    /\ Live(h)
    /\ CASE hs[h].st = "New" ->
              /\ submit_io(h, Token(h), "Oneshot")
              /\ hs' = [hs EXCEPT ![h].st = "Submitted",
                                  ![h].slot = submit_io_slot("Oneshot"),
                                  ![h].tag = submit_io_tag]
              /\ last' = Op("poll", h, "New", PollFromIoState(hs'[h]), 0, FALSE)
         [] hs[h].st = "Submitted" ->
              IF Oneshot_get_result_panics(oneshot, hs[h].slot)
              THEN /\ Panic("poll", h, "Submitted")
                   /\ UNCHANGED <<hs, storeVars>>
              ELSE LET res == Oneshot_get_result_ret(oneshot, hs[h].slot) IN
                   /\ oneshot' = Oneshot_get_result(oneshot, hs[h].slot)
                   /\ hs' = IF res # <<>>
                            THEN [hs EXCEPT ![h].st = "Finished", ![h].val = res[1]]
                            ELSE hs
                   /\ PollReturns(h, "Submitted", PollFromIoState(hs'[h]),
                                   /\ res # <<>>
                                   /\ reactor_value_to_result_panics(res[1]))
                   /\ UNCHANGED <<pending, multishot, sq>>
         [] hs[h].st = "Finished" ->
              /\ PollReturns(h, "Finished", PollFromIoState(hs[h]),
                              reactor_value_to_result_panics(hs[h].val))
              /\ UNCHANGED <<hs, storeVars>>
    /\ UNCHANGED <<kernelVars, reactVars, got>>

\* A drop that gives up the slot of every handle that was submitted.
Oneshot_drop_applies_Always(state) == state.st # "New"

\* Drop for OneshotUringIo acts on the state Submitted(slot) only.
Oneshot_drop_applies(state) == state.st = "Submitted"

\* Drop for OneshotUringIo: the kernel request is left to complete.
Oneshot_drop(h) ==
    /\ CanCall
    /\ hs[h].kind = "Oneshot"
    /\ Live(h)
    /\ hs' = [hs EXCEPT ![h].st = "Dropped", ![h].was = hs[h].st]
    /\ IF Oneshot_drop_applies(hs[h])
       THEN IF ~ SlabContains(oneshot, hs[h].slot)
            THEN Panic("drop", h, hs[h].st) /\ UNCHANGED oneshot
            ELSE /\ oneshot' = Oneshot_drop_result(oneshot, hs[h].slot)
                 /\ last' = Op("drop", h, hs[h].st, NoRet, 0, FALSE)
                 /\ UNCHANGED aborted
       ELSE /\ last' = Op("drop", h, hs[h].st, NoRet, 0, FALSE)
            /\ UNCHANGED <<oneshot, aborted>>
    /\ UNCHANGED <<pending, multishot, sq, kernelVars, reactVars, got>>

----------------------------------------------------------------------------
\* MultishotUringIo.

Multishot_submit_or_get_result(h) ==
    /\ CanCall
    /\ hs[h].kind = "Multi"
    /\ Live(h)
    /\ CASE hs[h].st = "New" ->
              /\ submit_io(h, Token(h), "Multi")
              /\ hs' = [hs EXCEPT ![h].st = "Submitted",
                                  ![h].slot = submit_io_slot("Multi"),
                                  ![h].tag = submit_io_tag]
              /\ last' = Op("poll", h, "New", PollPending, 0, FALSE)
              /\ UNCHANGED got
         [] hs[h].st = "Submitted" ->
              IF ~ SlabContains(multishot, hs[h].slot)
              THEN /\ Panic("poll", h, "Submitted")
                   /\ UNCHANGED <<hs, storeVars, got>>
              ELSE LET res == Multishot_pop_result_ret(multishot, hs[h].slot) IN
                   /\ multishot' = Multishot_pop_result(multishot, hs[h].slot)
                   /\ PollReturns(h, "Submitted",
                                   CASE res.tag = "Value" ->
                                        PollReadySome(reactor_value_to_result(res.v))
                                     [] res.tag = "Pending" -> PollPending
                                     [] res.tag = "Finished" -> PollReadyNone,
                                   /\ res.tag = "Value"
                                   /\ reactor_value_to_result_panics(res.v))
                   /\ got' = IF res.tag = "Value" /\ ~ aborted'
                             THEN [got EXCEPT ![h] =
                                      Append(@, reactor_value_to_result(res.v))]
                             ELSE got
                   /\ UNCHANGED <<hs, pending, oneshot, sq>>
    /\ UNCHANGED <<kernelVars, reactVars>>

\* Submitter::register_sync_cancel(None, CancelBuilder::user_data(tag)) as the
\* kernel answers it: the request carrying the tag is completed with
\* -ECANCELED and no "more" flag before the call returns; with no such request
\* in the kernel the call fails (ENOENT).
SyncCancelFinds(user_data) == \E r \in inflight : r.user_data = user_data

SyncCancelRequest(user_data) == CHOOSE r \in inflight : r.user_data = user_data

SyncCancel(user_data) ==
    LET r == SyncCancelRequest(user_data) IN
    /\ inflight' = inflight \ {r}
    /\ cq' = Append(cq, [user_data |-> r.user_data, result |-> CancelledResult,
                         more |-> FALSE, sid |-> r.sid])
    /\ keos' = [keos EXCEPT ![r.sid] = TRUE]
    /\ kvals' = IF r.multi THEN kvals
                ELSE [kvals EXCEPT ![r.sid] = <<CancelledResult>>]

\* The cancel keyed by the index of the result slot.
SyncCancelKey_Slot(state) == state.slot

\* CancelBuilder::user_data(user_data): the cancel is keyed by the tag kept
\* in Submitted(slot, user_data).
SyncCancelKey(state) == state.tag

\* A drop that frees the tag itself.
Multishot_drop_pending_Free(p, user_data) ==
    IF SlabContains(p, user_data) THEN SlabRemove(p, user_data) ELSE p

\* What the drop does to the pending table.
Multishot_drop_pending(p, user_data) == p

\* Drop for MultishotUringIo: cancel by tag, which must succeed, then
\* drop_result.
Multishot_drop(h) ==
    /\ CanCall
    /\ hs[h].kind = "Multi"
    /\ Live(h)
    /\ hs' = [hs EXCEPT ![h].st = "Dropped", ![h].was = hs[h].st,
                        ![h].early = /\ hs[h].st = "Submitted"
                                     /\ SlabContains(multishot, hs[h].slot)
                                     /\ ~ SlabGet(multishot, hs[h].slot).finished]
    /\ IF hs[h].st = "Submitted"
       THEN IF \/ ~ SyncCancelFinds(SyncCancelKey(hs[h]))
               \/ ~ SlabContains(multishot, hs[h].slot)
            THEN /\ Panic("drop", h, hs[h].st)
                 /\ UNCHANGED <<multishot, pending, kernelVars>>
            ELSE /\ SyncCancel(SyncCancelKey(hs[h]))
                 /\ multishot' = Multishot_drop_result(multishot, hs[h].slot)
                 /\ pending' = Multishot_drop_pending(pending, hs[h].tag)
                 /\ last' = Op("drop", h, hs[h].st, NoRet, 0, FALSE)
                 /\ UNCHANGED aborted
       ELSE /\ last' = Op("drop", h, hs[h].st, NoRet, 0, FALSE)
            /\ UNCHANGED <<multishot, pending, kernelVars, aborted>>
    /\ UNCHANGED <<oneshot, sq, reactVars, got>>

----------------------------------------------------------------------------
\* The kernel: it completes the requests it holds and posts the completions,
\* labelled with the request's user_data, at the tail of the completion queue.

Cqe(r, v, more) ==
    [user_data |-> r.user_data, result |-> v, more |-> more, sid |-> r.sid]

\* A completion posted while an iterator is alive lies beyond the snapshot the
\* iterator took, and the iterator reads nothing else of the kernel: it is
\* posted, as far as the reactor can tell, once the iterator is gone.
KernelRuns == ~ aborted /\ rpc # "iter"

KernelCompleteOneshot ==
    /\ KernelRuns
    /\ \E r \in inflight, v \in Values :
         /\ ~ r.multi
         /\ inflight' = inflight \ {r}
         /\ cq' = Append(cq, Cqe(r, v, FALSE))
         /\ kvals' = [kvals EXCEPT ![r.sid] = <<v>>]
         /\ keos' = [keos EXCEPT ![r.sid] = TRUE]
         /\ last' = Op("kernel", 0, "", NoRet, 0, FALSE)
    /\ UNCHANGED <<hs, storeVars, reactVars, aborted, got>>

KernelMultishotValue ==
    /\ KernelRuns
    /\ \E r \in inflight, v \in Values :
         /\ r.multi
         /\ Len(kvals[r.sid]) < MaxVals
         /\ cq' = Append(cq, Cqe(r, v, TRUE))
         /\ kvals' = [kvals EXCEPT ![r.sid] = Append(@, v)]
         /\ last' = Op("kernel", 0, "", NoRet, 0, FALSE)
    /\ UNCHANGED <<hs, storeVars, reactVars, aborted, got, inflight, keos>>

KernelMultishotEnd ==
    /\ KernelRuns
    /\ \E r \in inflight, v \in EndValues :
         /\ r.multi
         /\ inflight' = inflight \ {r}
         /\ cq' = Append(cq, Cqe(r, v, FALSE))
         /\ keos' = [keos EXCEPT ![r.sid] = TRUE]
         /\ last' = Op("kernel", 0, "", NoRet, 0, FALSE)
    /\ UNCHANGED <<hs, storeVars, reactVars, aborted, got, kvals>>

----------------------------------------------------------------------------
\* ReactorUring::react and IoCompletionIter.

SeqToSet(q) == {q[i] : i \in DOMAIN q}

\* submit_and_wait(1), first half: the queued submissions go to the kernel.
ReactSubmit ==
    /\ CanCall
    /\ rpc' = "waiting"
    /\ inflight' = inflight \cup
                   {[user_data |-> e.user_data, multi |-> e.multi, sid |-> e.sid] :
                        e \in SeqToSet(sq)}
    /\ sq' = <<>>
    /\ last' = Op("submit", 0, "", NoRet, 0, last.op = "end" /\ last.more)
    /\ UNCHANGED <<hs, pending, oneshot, multishot, cq, kvals, keos, iter_n,
                   aborted, got, wakes, drained, snap, yielded>>

\* submit_and_wait(1), second half: it returns once a completion is there;
\* the iterator then sees the completions posted so far.
ReactWake ==
    /\ ~ aborted
    /\ rpc = "waiting"
    /\ cq # <<>>
    /\ rpc' = "iter"
    /\ iter_n' = Len(cq)
    /\ snap' = [i \in 1 .. Len(cq) |-> cq[i].sid]
    /\ yielded' = <<>>
    /\ last' = Op("wake", 0, "", NoRet, 0, last.op = "submit" /\ last.more)
    /\ UNCHANGED <<hs, storeVars, kernelVars, aborted, got, wakes, drained>>

\* IoCompletionIter::next, the pending entry the completion belongs to.
IterPendingIo(p, entry) == SlabGet(p, entry.user_data)

\* The result stored at the index the tag names.
IterOneshot_ByTag(store, pending_io, entry) ==
    IF SlabContains(store, entry.user_data)
    THEN Oneshot_set_result(store, entry.result, entry.user_data)
    ELSE store

\* IoCompletionIter::next on a oneshot entry: store the result.
IterOneshot(store, pending_io, entry) ==
    Oneshot_set_result(store, entry.result, pending_io.result_slab_idx)

\* IoCompletionIter::next on a multishot entry: a completion with the "more"
\* flag carries a value of the stream, one without it ends the stream.
IterMultishot(store, pending_io, entry) ==
    IF entry.more
    THEN Multishot_push_result(store, entry.result, pending_io.result_slab_idx)
    ELSE Multishot_set_finished(store, pending_io.result_slab_idx)

\* IoCompletionIter::next on a multishot entry: the pending entry is kept
\* until the stream is finished.
IterPendingMultishot(p, entry) ==
    IF entry.more THEN p ELSE SlabRemove(p, entry.user_data)

\* The pending entry of a oneshot submission kept after its completion.
IterPending_Keep(p, pending_io, entry) ==
    IF pending_io.kind = "Oneshot" THEN p ELSE IterPendingMultishot(p, entry)

\* IoCompletionIter::next: the pending entry of a oneshot submission goes
\* with its completion.
IterPending(p, pending_io, entry) ==
    IF pending_io.kind = "Oneshot"
    THEN SlabRemove(p, entry.user_data)
    ELSE IterPendingMultishot(p, entry)

\* IoCompletionIter::next: the wake token yielded.
IterYield(pending_io) == pending_io.assoc_obj

IterNext ==
    /\ ~ aborted
    /\ rpc = "iter"
    /\ iter_n > 0
    /\ LET entry == Head(cq) IN
       /\ cq' = Tail(cq)
       /\ iter_n' = iter_n - 1
       /\ IF ~ SlabContains(pending, entry.user_data)
          THEN /\ Panic("next", entry.sid, "")
               /\ UNCHANGED <<pending, oneshot, multishot, wakes, drained, yielded>>
          ELSE LET pending_io == IterPendingIo(pending, entry)
                   store == IF pending_io.kind = "Oneshot" THEN oneshot ELSE multishot
               IN
               IF ~ SlabContains(store, pending_io.result_slab_idx)
               THEN /\ Panic("next", entry.sid, "")
                    /\ UNCHANGED <<pending, oneshot, multishot, wakes, drained,
                                   yielded>>
               ELSE /\ IF pending_io.kind = "Oneshot"
                       THEN /\ oneshot' = IterOneshot(oneshot, pending_io, entry)
                            /\ UNCHANGED multishot
                       ELSE /\ multishot' = IterMultishot(multishot, pending_io, entry)
                            /\ UNCHANGED oneshot
                    /\ pending' = IterPending(pending, pending_io, entry)
                    /\ yielded' = Append(yielded, IterYield(pending_io))
                    /\ wakes' = [h \in Handles |->
                                   IF Token(h) = IterYield(pending_io)
                                   THEN wakes[h] + 1 ELSE wakes[h]]
                    /\ drained' = [drained EXCEPT ![entry.sid] = @ + 1]
                    /\ last' = Op("next", entry.sid, pending_io.kind,
                                  IF \/ last.op = "wake" /\ last.more
                                     \/ last.op = "next" /\ last.ret = KeptRet
                                  THEN KeptRet ELSE NoRet,
                                  IterYield(pending_io), entry.more)
                    /\ UNCHANGED aborted
    /\ UNCHANGED <<hs, sq, inflight, kvals, keos, rpc, snap, got>>

\* A drop of the iterator that marks all it was given as consumed.
IterDropCq_Discard(q, n) == SubSeq(q, n + 1, Len(q))

\* The CompletionQueue goes with the iterator: the n entries it was given
\* and did not hand out stay in the ring.
IterDropCq(q, n) == q

\* The iterator is dropped, exhausted or not.
IterEnd ==
    /\ ~ aborted
    /\ rpc = "iter"
    /\ rpc' = "idle"
    /\ iter_n' = 0
    /\ cq' = IterDropCq(cq, iter_n)
    /\ snap' = <<>>
    /\ yielded' = <<>>
    /\ last' = Op("end", 0, "", NoRet, 0, iter_n > 0)
    /\ UNCHANGED <<hs, storeVars, inflight, kvals, keos, aborted, got, wakes,
                   drained>>

----------------------------------------------------------------------------
Next ==
    \/ \E h \in Handles : new_oneshot_io(h)
    \/ \E h \in Handles : new_multishot_io(h)
    \/ \E h \in Handles : Oneshot_submit_or_get_result(h)
    \/ \E h \in Handles : Oneshot_drop(h)
    \/ \E h \in Handles : Multishot_submit_or_get_result(h)
    \/ \E h \in Handles : Multishot_drop(h)
    \/ KernelCompleteOneshot
    \/ KernelMultishotValue
    \/ KernelMultishotEnd
    \/ ReactSubmit
    \/ ReactWake
    \/ IterNext
    \/ IterEnd

Spec == Init /\ [][Next]_vars

----------------------------------------------------------------------------
\* The result conversion over the range of i32.  Handle 1 is a oneshot handle
\* whose completion, with value v, was processed and polled (Finished(v));
\* handle 2 is a multishot handle, submitted after that, whose slot holds v
\* as the one value received so far.  The polls of the two convert v.

ConvSpan == 8

ConvInputs ==
    {I32Min + i : i \in 0 .. ConvSpan}
        \cup ((0 - ConvSpan) .. ConvSpan)
        \cup {I32Max - i : i \in 0 .. ConvSpan}

ConvInit ==
    \E v \in ConvInputs :
        /\ hs = [h \in Handles |->
                   IF h = 1
                   THEN [HandleNew("Oneshot") EXCEPT !.st = "Finished", !.val = v]
                   ELSE IF h = 2
                   THEN [HandleNew("Multi") EXCEPT !.st = "Submitted"]
                   ELSE HandleAbsent]
        /\ pending = SlabInsert(SlabRemove(SlabInsert(SlabNew,
                          PendingIo(Token(1), 0, "Oneshot")), 0),
                          PendingIo(Token(2), 0, "Multi"))
        /\ oneshot = SlabRemove(Oneshot_create_slot(SlabNew), 0)
        /\ multishot = Multishot_push_result(Multishot_create_slot(SlabNew), v, 0)
        /\ sq = <<>>
        /\ inflight = {[user_data |-> 0, multi |-> TRUE, sid |-> 2]}
        /\ cq = <<>>
        /\ rpc = "idle"
        /\ iter_n = 0
        /\ aborted = FALSE
        /\ last = Op("end", 0, "", NoRet, 0, FALSE)
        /\ kvals = [h \in Handles |-> IF h \in {1, 2} THEN <<v>> ELSE <<>>]
        /\ keos = [h \in Handles |-> h = 1]
        /\ got = [h \in Handles |-> <<>>]
        /\ wakes = [h \in Handles |-> IF h \in {1, 2} THEN 1 ELSE 0]
        /\ drained = [h \in Handles |-> IF h \in {1, 2} THEN 1 ELSE 0]
        /\ snap = <<>>
        /\ yielded = <<>>

ConvNext ==
    \/ Oneshot_submit_or_get_result(1)
    \/ Multishot_submit_or_get_result(2)

ConvSpec == ConvInit /\ [][ConvNext]_vars

----------------------------------------------------------------------------
\* Vocabulary of the properties.

IsOneshot(h) == hs[h].st # "Absent" /\ hs[h].kind = "Oneshot"

IsMulti(h) == hs[h].st # "Absent" /\ hs[h].kind = "Multi"

\* The operation performed last was this one, on handle h, and it returned.
Polled(h) == last.op = "poll" /\ last.h = h /\ ~ aborted

DropReturned(h) == last.op = "drop" /\ last.h = h /\ ~ aborted

\* react has just processed a completion of h's submission.
Processed(h) == last.op = "next" /\ last.h = h /\ ~ aborted

\* react has processed the final completion of h's multishot submission.
EosProcessed(h) == keos[h] /\ drained[h] = Len(kvals[h]) + 1

\* The results the handle's conversion makes of the kernel's values.
Converted(vs) == [i \in DOMAIN vs |-> reactor_value_to_result(vs[i])]

IsPrefix(a, b) == Len(a) <= Len(b) /\ \A i \in DOMAIN a : a[i] = b[i]

\* h was dropped in state Submitted before its stream was marked finished,
\* and the drop returned.
DroppedEarly(h) ==
    /\ IsMulti(h)
    /\ hs[h].st = "Dropped"
    /\ hs[h].was = "Submitted"
    /\ hs[h].early
    /\ ~ (aborted /\ last.op = "drop" /\ last.h = h)

----------------------------------------------------------------------------
\* C1: a oneshot handle that was polled once and whose completion, carrying
\* the value v, react has processed, returns from its next poll ready with
\* the result made of exactly v, whatever happened to other handles.
C1_ReadyWithKernelValue ==
    \A h \in Handles :
        (Polled(h) /\ IsOneshot(h) /\ last.pre = "Submitted" /\ drained[h] >= 1)
        => /\ Len(kvals[h]) = 1
           /\ last.ret = PollReady(reactor_value_to_result(kvals[h][1]))
           /\ hs[h].st = "Finished"

C1_Witness ==
    \E h \in Handles :
        /\ Polled(h) /\ IsOneshot(h) /\ last.pre = "Submitted" /\ drained[h] >= 1
        /\ ~ last.ret.ok
        /\ \E g \in Handles : g # h /\ hs[g].st = "Dropped"

\* C2: when react processes the completion of a oneshot handle that was
\* dropped after its first poll, the oneshot store keeps no slot of the handle
\* and the pending table no entry of its tag.
C2_DroppedOneshotCleaned ==
    \A h \in Handles :
        (Processed(h) /\ IsOneshot(h) /\ hs[h].st = "Dropped"
            /\ hs[h].was = "Submitted")
        => /\ ~ SlabContains(oneshot, hs[h].slot)
           /\ ~ SlabContains(pending, hs[h].tag)

C2_Witness ==
    \E h \in Handles :
        /\ last.op = "next" /\ last.h = h /\ IsOneshot(h)
        /\ hs[h].st = "Dropped" /\ hs[h].was = "Submitted"
        /\ ~ SlabContains(oneshot, hs[h].slot)

\* C3: every completion react processes yields one wake token, the one given
\* with the submission that produced the completion, also when the handle is
\* gone; the token of a oneshot submission is yielded once at most, and once
\* exactly when its completion has been processed.
C3_OneTokenPerCompletion ==
    /\ \A h \in Handles : Processed(h) => last.tok = Token(h)
    /\ \A h \in Handles : wakes[h] = drained[h]
    /\ \A h \in Handles : IsOneshot(h) => wakes[h] <= 1

C3_Witness ==
    \E h \in Handles :
        /\ Processed(h) /\ IsOneshot(h) /\ hs[h].st = "Dropped"
        /\ last.tok = Token(h) /\ wakes[h] = 1

Quiesced ==
    /\ ~ aborted
    /\ rpc = "idle"
    /\ sq = <<>> /\ inflight = {} /\ cq = <<>>
    /\ \A h \in Handles :
          \/ hs[h].st \in {"Absent", "Dropped"}
          \/ IsOneshot(h) /\ hs[h].st = "Finished"

C7_FinishedPollIdempotent ==
    [][\A h \in Handles :
          (IsOneshot(h) /\ hs[h].st = "Finished" /\ last'.op = "poll" /\ last'.h = h)
          => /\ last'.ret = PollReady(reactor_value_to_result(hs[h].val))
             /\ (last.op = "poll" /\ last.h = h) => last'.ret = last.ret
             /\ ~ aborted'
             /\ UNCHANGED <<hs, pending, oneshot, multishot, sq, inflight, cq>>]_vars

C7_Witness ==
    \E h \in Handles :
        /\ Polled(h) /\ IsOneshot(h) /\ last.pre = "Finished"
        /\ hs[h].st = "Finished" /\ hs[h].val < 0

\* C8: a poll of a submitted handle whose slot holds no result (a oneshot
\* slot still Pending, a multishot slot with an empty queue and not finished)
\* returns not-ready and changes neither the handle, its slot, the pending
\* table nor the submission queue.
NoResultYet(h) ==
    /\ hs[h].st = "Submitted"
    /\ IF hs[h].kind = "Oneshot"
       THEN /\ SlabContains(oneshot, hs[h].slot)
            /\ SlabGet(oneshot, hs[h].slot).st = "Pending"
       ELSE /\ SlabContains(multishot, hs[h].slot)
            /\ SlabGet(multishot, hs[h].slot).results = <<>>
            /\ ~ SlabGet(multishot, hs[h].slot).finished

C8_PendingPollIdempotent ==
    [][\A h \in Handles :
          (NoResultYet(h) /\ last'.op = "poll" /\ last'.h = h)
          => /\ last'.ret = PollPending
             /\ ~ aborted'
             /\ UNCHANGED <<hs, pending, oneshot, multishot, sq>>]_vars

C8_Witness ==
    \E h \in Handles :
        /\ Polled(h) /\ last.pre = "Submitted" /\ last.ret = PollPending
        /\ NoResultYet(h) /\ IsMulti(h) /\ drained[h] >= 1
        /\ \E g \in Handles : IsOneshot(g) /\ NoResultYet(g)

\* C9: the tokens one react yields are those of the submissions whose
\* completions it processed, one for each, in completion-queue order, so that
\* an exhausted react has yielded exactly the tokens of the completions it
\* found; and a oneshot handle that finished holds the value the kernel
\* reported for its own submission.
C9_TokensAndResultsMatch ==
    /\ (rpc = "iter" /\ ~ aborted)
       => /\ Len(yielded) + iter_n = Len(snap)
          /\ yielded = [i \in 1 .. Len(yielded) |-> Token(snap[i])]
    /\ \A h \in Handles :
          (IsOneshot(h) /\ hs[h].st = "Finished") => kvals[h] = <<hs[h].val>>

C9_Witness ==
    /\ rpc = "iter" /\ iter_n = 0 /\ ~ aborted
    /\ Len(yielded) = 2 /\ yielded[1] = Token(2) /\ yielded[2] = Token(1)
    /\ IsOneshot(1) /\ IsOneshot(2)
    /\ kvals[1] # kvals[2]

----------------------------------------------------------------------------
\* The stream of h ended by itself: the kernel posted the final completion
\* while the handle was alive, and react has processed it.
FinishedNaturally(h) ==
    /\ IsMulti(h)
    /\ EosProcessed(h)
    /\ ~ (hs[h].st = "Dropped" /\ hs[h].early)

\* C11: when the stream of a multishot handle has finished naturally and a
\* poll of the handle returns ready(none), the multishot store no longer holds
\* the handle's slot.
C11_SlotGoneAtReadyNone ==
    \A h \in Handles :
        (Polled(h) /\ FinishedNaturally(h) /\ last.ret = PollReadyNone)
        => ~ SlabContains(multishot, hs[h].slot)

\* C12: the provider of a handle is called by the poll that finds the handle
\* in state New and by no other: that poll queues one submission carrying the
\* provider's token under a fresh tag, creates one pending entry and one
\* result slot, and returns not-ready; every other poll leaves the submission
\* queue and the pending table alone and creates no slot, and no handle ever
\* returns to state New.
C12_ProviderOnceOnFirstPoll ==
    [][\A h \in Handles :
          /\ (last'.op = "poll" /\ last'.h = h /\ hs[h].st = "New")
             => /\ ~ aborted'
                /\ last'.ret = PollPending
                /\ hs'[h].st = "Submitted"
                /\ sq' = Append(sq, [user_data |-> hs'[h].tag,
                                     multi |-> (hs[h].kind = "Multi"),
                                     sid |-> h])
                /\ ~ SlabContains(pending, hs'[h].tag)
                /\ SlabContains(pending', hs'[h].tag)
                /\ SlabGet(pending', hs'[h].tag) =
                      PendingIo(Token(h), hs'[h].slot, hs[h].kind)
                /\ pending'.len = pending.len + 1
                /\ IF hs[h].kind = "Oneshot"
                   THEN /\ oneshot'.len = oneshot.len + 1
                        /\ ~ SlabContains(oneshot, hs'[h].slot)
                        /\ SlabContains(oneshot', hs'[h].slot)
                        /\ multishot' = multishot
                   ELSE /\ multishot'.len = multishot.len + 1
                        /\ ~ SlabContains(multishot, hs'[h].slot)
                        /\ SlabContains(multishot', hs'[h].slot)
                        /\ oneshot' = oneshot
          /\ (last'.op = "poll" /\ last'.h = h /\ hs[h].st # "New")
             => /\ sq' = sq
                /\ pending' = pending
                /\ oneshot'.len <= oneshot.len
                /\ multishot'.len <= multishot.len
          /\ hs[h].st \in {"Submitted", "Finished", "Dropped"}
             => hs'[h].st # "New"]_vars

C12_Witness ==
    \E h \in Handles :
        /\ Polled(h) /\ last.pre = "Submitted" /\ last.ret = PollPending
        /\ Len(sq) = 1 /\ sq[1].sid = h
        /\ pending.len = 1
        /\ \E g \in Handles : g # h /\ hs[g].st = "Dropped" /\ hs[g].was = "New"

\* C13: the conversion of a completion value v makes a success carrying v of
\* v >= 0 and a failure carrying the error code |v| of v < 0, for every value
\* of i32, the least one included, and the poll that converts never panics.
ConvertsExactly(v, ret) ==
    IF v >= 0
    THEN ret.ok /\ ret.val = v
    ELSE ~ ret.ok /\ ret.val > 0 /\ ret.val + v = 0

C13_ConversionTotal ==
    /\ (last.op = "poll" /\ last.h = 1 /\ last.pre = "Finished")
       => /\ ~ aborted
          /\ last.ret.tag = "Ready"
          /\ ConvertsExactly(hs[1].val, last.ret)
    /\ (last.op = "poll" /\ last.h = 2 /\ last.pre = "Submitted"
          /\ last.ret.tag # "Pending")
       => /\ ~ aborted
          /\ last.ret.tag = "ReadySome"
          /\ ConvertsExactly(kvals[2][1], last.ret)

\* C14: when react routes a value of a stream to push_result, the queue of a
\* slot marked dropped stays as it is, and the queue of a slot not marked
\* dropped gets the value at its tail.
C14_PushDiscardedWhenDropped ==
    [][(last'.op = "next" /\ last'.pre = "Multi" /\ last'.more /\ ~ aborted')
       => LET idx == IterPendingIo(pending, Head(cq)).result_slab_idx IN
          /\ SlabContains(multishot', idx)
          /\ SlabGet(multishot', idx).results =
                IF SlabGet(multishot, idx).dropped
                THEN SlabGet(multishot, idx).results
                ELSE Append(SlabGet(multishot, idx).results, Head(cq).result)]_vars

\* The keys of a slab that hold a value.
SlabKeys(s) == {i \in 0 .. (Len(s.entries) - 1) : SlabContains(s, i)}

\* The slot h's submission created is still needed: by the handle, which is
\* waiting in state Submitted, or by the completion, which react has not
\* processed yet.
Holding(h) ==
    /\ IsOneshot(h)
    /\ \/ hs[h].st = "Submitted"
       \/ hs[h].st = "Dropped" /\ hs[h].was = "Submitted" /\ drained[h] = 0

\* C15: the oneshot store holds exactly the slots still needed by a handle
\* or by a completion to come, each once (none is left behind, none is
\* missing because it was removed twice); and a slot leaves the store only by
\* get_result finding it Set, by drop_result finding it Set or by set_result
\* finding it Dropped, called for the submission that created it.
C15_SlotLeavesExactlyOnce ==
    /\ [](/\ SlabKeys(oneshot) = {hs[h].slot : h \in {g \in Handles : Holding(g)}}
          /\ oneshot.len = Cardinality({g \in Handles : Holding(g)}))
    /\ [][\A i \in SlabKeys(oneshot) :
            ~ SlabContains(oneshot', i)
            => \E h \in Handles :
                 /\ Holding(h) /\ hs[h].slot = i /\ ~ Holding(h)'
                 /\ last'.h = h
                 /\ \/ /\ last'.op = "poll"
                       /\ SlabGet(oneshot, i).st = "Set"
                       /\ hs'[h].st = "Finished"
                    \/ /\ last'.op = "drop"
                       /\ SlabGet(oneshot, i).st = "Set"
                    \/ /\ last'.op = "next"
                       /\ SlabGet(oneshot, i).st = "Dropped"]_vars

C15_Witness ==
    \E h, g \in Handles :
        /\ DropReturned(h) /\ IsOneshot(h) /\ last.pre = "Submitted"
        /\ drained[h] = 1
        /\ IsOneshot(g) /\ hs[g].st = "Finished"
        /\ SlabIsEmpty(oneshot)

\* The panic raised last came from the synchronous cancel of a drop finding
\* no request with the handle's tag in the kernel.
CancelFailed ==
    /\ aborted
    /\ last.op = "drop" /\ last.h \in Handles
    /\ IsMulti(last.h) /\ last.pre = "Submitted"
    /\ ~ SyncCancelFinds(hs[last.h].tag)

C17_SetResultNeverOnSet ==
    /\ [](\A h \in Handles : IsOneshot(h) => drained[h] <= 1)
    /\ [][(last'.op = "next" /\ ~ aborted')
          => /\ last'.pre = "Oneshot"
                => /\ SlabGet(oneshot, IterPendingIo(pending, Head(cq)).result_slab_idx).st
                         # "Set"
                   /\ ~ SlabContains(pending', Head(cq).user_data)
             /\ \A i \in SlabKeys(oneshot) :
                   SlabGet(oneshot, i).st = "Set"
                   => /\ SlabContains(oneshot', i)
                      /\ SlabGet(oneshot', i) = SlabGet(oneshot, i)]_vars

C17_Witness ==
    \E h, g \in Handles :
        /\ Processed(h) /\ IsOneshot(h) /\ hs[h].st = "Submitted"
        /\ SlabGet(oneshot, hs[h].slot).st = "Set"
        /\ g # h /\ IsOneshot(g) /\ hs[g].st = "Submitted"
        /\ SlabGet(oneshot, hs[g].slot).st = "Set"
        /\ SlabGet(oneshot, hs[g].slot).v # SlabGet(oneshot, hs[h].slot).v

\* h's submission was queued.
Submitted(h) == hs[h].st \in {"Submitted", "Finished"} \/
                (hs[h].st = "Dropped" /\ hs[h].was # "New")

\* react has processed the final completion of h's submission: the one
\* completion of a oneshot, the end of the stream of a multishot.
FinalProcessed(h) ==
    IF hs[h].kind = "Oneshot" THEN drained[h] >= 1 ELSE EosProcessed(h)

C19_DropOfNewOrFinishedIsNoOp ==
    [][\A h \in Handles :
          (/\ last'.op = "drop" /\ last'.h = h
           /\ \/ hs[h].st = "New"
              \/ hs[h].kind = "Oneshot" /\ hs[h].st = "Finished")
          => /\ ~ aborted'
             /\ hs'[h].st = "Dropped"
             /\ UNCHANGED <<pending, oneshot, multishot, sq, inflight, cq>>]_vars

C19_Witness ==
    \E h, g \in Handles :
        /\ DropReturned(h) /\ IsOneshot(h) /\ last.pre = "Finished"
        /\ g # h /\ IsOneshot(g) /\ hs[g].st = "Submitted"
        /\ hs[g].slot = hs[h].slot
        /\ SlabContains(oneshot, hs[g].slot)

\* C20: the drop of a multishot handle in state Submitted asks the kernel to
\* cancel the request carrying the handle's tag.  When the kernel holds such
\* a request the drop returns: no request with the tag is left in the kernel,
\* its final completion (cancelled, no more flag) is at the tail of the
\* completion queue, and drop_result has acted on the handle's slot (removed
\* if finished, marked dropped otherwise).  When it holds none the drop
\* panics and the multishot store, the kernel's requests and the completion
\* queue are as before: drop_result has not acted.
C20_CancelThenDropResult ==
    [][\A h \in Handles :
          (/\ last'.op = "drop" /\ last'.h = h
           /\ hs[h].kind = "Multi" /\ hs[h].st = "Submitted")
          => IF SyncCancelFinds(hs[h].tag)
             THEN /\ ~ aborted'
                  /\ \A r \in inflight' : r.user_data # hs[h].tag
                  /\ Cardinality(inflight') = Cardinality(inflight) - 1
                  /\ Len(cq') = Len(cq) + 1
                  /\ SubSeq(cq', 1, Len(cq)) = cq
                  /\ cq'[Len(cq')].user_data = hs[h].tag
                  /\ cq'[Len(cq')].result = CancelledResult
                  /\ ~ cq'[Len(cq')].more
                  /\ IF SlabGet(multishot, hs[h].slot).finished
                     THEN ~ SlabContains(multishot', hs[h].slot)
                     ELSE /\ SlabContains(multishot', hs[h].slot)
                          /\ SlabGet(multishot', hs[h].slot).dropped
             ELSE /\ aborted'
                  /\ UNCHANGED <<multishot, pending, inflight, cq>>]_vars

C20_Witness ==
    /\ CancelFailed
    /\ SlabContains(multishot, hs[last.h].slot)
    /\ ~ SlabGet(multishot, hs[last.h].slot).dropped
    /\ SlabGet(multishot, hs[last.h].slot).finished
    /\ \E g \in Handles :
          /\ DroppedEarly(g)
          /\ \E i \in DOMAIN cq : /\ cq[i].user_data = hs[g].tag
                                    /\ cq[i].result = CancelledResult

\* The first n elements of a sequence.
Take(q, n) == SubSeq(q, 1, IF n < Len(q) THEN n ELSE Len(q))

\* C21: tags and slot indices are recycled without a completion ever reaching
\* a slot other than that of the submission it was posted for.  Every react
\* step finds, under the tag of the completion, the pending entry of the
\* submission that produced it and changes nothing in the stores but the slot
\* of that submission; so the slot of a waiting oneshot handle holds nothing
\* but the value the kernel posted for its own submission, and the values a
\* multishot handle has received and those still queued in its slot are,
\* in order, the values of its own stream that react has processed.
C21_CompletionsReachOwnSlot ==
    /\ [](\A h \in Handles :
            /\ (IsOneshot(h) /\ hs[h].st = "Submitted" /\ ~ aborted)
               => /\ SlabContains(oneshot, hs[h].slot)
                  /\ IF drained[h] = 0
                     THEN SlabGet(oneshot, hs[h].slot) = RsPending
                     ELSE /\ Len(kvals[h]) = 1
                          /\ SlabGet(oneshot, hs[h].slot) = RsSet(kvals[h][1])
            /\ (IsMulti(h) /\ hs[h].st = "Submitted" /\ ~ aborted)
               => /\ SlabContains(multishot, hs[h].slot)
                  /\ got[h] \o Converted(SlabGet(multishot, hs[h].slot).results)
                        = Converted(Take(kvals[h], drained[h])))
    /\ [][(last'.op = "next" /\ ~ aborted')
          => LET entry == Head(cq)
                 s == entry.sid
                 pending_io == IterPendingIo(pending, entry)
             IN
             /\ entry.user_data = hs[s].tag
             /\ pending_io = PendingIo(Token(s), hs[s].slot, hs[s].kind)
             /\ IF hs[s].kind = "Oneshot"
                THEN /\ multishot' = multishot
                     /\ \A i \in SlabKeys(oneshot) \ {hs[s].slot} :
                           /\ SlabContains(oneshot', i)
                           /\ SlabGet(oneshot', i) = SlabGet(oneshot, i)
                ELSE /\ oneshot' = oneshot
                     /\ \A i \in SlabKeys(multishot) \ {hs[s].slot} :
                           /\ SlabContains(multishot', i)
                           /\ SlabGet(multishot', i) = SlabGet(multishot, i)]_vars

C21_Witness ==
    \E h, g \in Handles :
        /\ Processed(h) /\ IsOneshot(h) /\ hs[h].st = "Submitted"
        /\ SlabGet(oneshot, hs[h].slot).st = "Set"
        /\ g # h /\ IsOneshot(g) /\ hs[g].st = "Dropped" /\ hs[g].was = "Submitted"
        /\ drained[g] = 1
        /\ hs[g].slot = hs[h].slot /\ hs[g].tag = hs[h].tag
        /\ kvals[g] # kvals[h]

\* The completions the kernel has posted for h's submission.
Posted(h) == Len(kvals[h]) + (IF hs[h].kind = "Multi" /\ keos[h] THEN 1 ELSE 0)

\* The completions of h's submission waiting in the completion queue.
Queued(h) == Cardinality({i \in DOMAIN cq : cq[i].sid = h})

\* C22: the iterator of react processes one completion for each step taken,
\* the one at the head of the completion queue, storing its result and
\* yielding its token; dropping the iterator, exhausted or not, leaves the
\* completions it has not processed in the queue, in order, and the iterator
\* of the next react covers them all, oldest first.  So every completion the
\* kernel has posted is either still queued or has been processed once: none
\* is lost and none is processed twice.
C22_AbandonedCompletionsKept ==
    /\ [](~ aborted =>
            /\ \A h \in Handles : drained[h] + Queued(h) = Posted(h)
            /\ \A h \in Handles : wakes[h] = drained[h]
            /\ rpc = "iter" => iter_n <= Len(cq)
            /\ rpc # "iter" => iter_n = 0)
    /\ [][/\ (last'.op = "next" /\ ~ aborted')
             => /\ cq' = Tail(cq)
                /\ iter_n' = iter_n - 1
                /\ drained' = [drained EXCEPT ![Head(cq).sid] = @ + 1]
                /\ yielded' = Append(yielded, Token(Head(cq).sid))
                /\ <<oneshot', multishot'>> # <<oneshot, multishot>>
          /\ last'.op = "end"
             => /\ UNCHANGED <<cq, drained, wakes, oneshot, multishot, pending>>
                /\ rpc' = "idle"
          /\ last'.op = "wake"
             => /\ UNCHANGED <<cq, drained, wakes, oneshot, multishot, pending>>
                /\ iter_n' = Len(cq)
                /\ iter_n' >= 1]_vars

C22_Witness ==
    /\ last.op = "next" /\ last.ret = KeptRet /\ ~ aborted
    /\ iter_n = 0 /\ cq = <<>>
    /\ Len(yielded) = 2
    /\ \E h \in Handles :
          /\ IsMulti(h) /\ drained[h] = 3 /\ Posted(h) = 3
          /\ SlabContains(multishot, hs[h].slot)
          /\ Len(SlabGet(multishot, hs[h].slot).results) = 2

====
